---- MODULE Spec2Model ----
(***************************************************************************)
(* Model of extension-runtime-service/src/main.rs: the POST /execute       *)
(* handler (handle_execute), the executor (execute_plugin_safe) with the   *)
(* module loader, the import validator, the store set-up and the guest     *)
(* call, for a fixed set of concurrent handler tasks (Spec); the same with  *)
(* a client that disconnects (SpecLeave); and the marshaller and the       *)
(* resource limiter called on their own (SpecFn).                          *)
(***************************************************************************)
EXTENDS Integers, Sequences, FiniteSets, TLC

(***************************************************************************)
(* Bounds of the model.  The RuntimeConfig defaults (main.rs:25-28) are    *)
(* scaled down: max_instances is 10 and fuel_limit 1_000_000 in the        *)
(* source.  NumHandlers is the number of requests in flight, MaxNap the    *)
(* seconds the longest guest call blocks, I32Bits the width of a Wasm i32  *)
(* (32 in the source), ProbeBeyond how far past the i32 range and past the *)
(* limiter's caps the function-level inputs go, MaxServed the number of    *)
(* served requests after which a handler task takes no further request.   *)
(***************************************************************************)
max_instances == 2
fuel_limit == 4
NumHandlers == 3
MaxNap == 2
I32Bits == 5
ProbeBeyond == 3
\* Config.batch_size (1000 unless BATCH_SIZE says otherwise), scaled down.
batch_size == 2

\* Concurrent calls of process_event.
NumCallers == 2

\* Events the consumer receives in one run.
MaxEvents == 4

MaxServed == 2

(***************************************************************************)
(* Program constants.                                                      *)
(***************************************************************************)
max_memory_pages == 100
max_table_elements == 1000
PageBytes == 65536
MaxModuleBytes == 10485760
DefaultTimeoutSecs == 30
MaxTimeoutSecs == 300

Handlers == 1..NumHandlers

\* Option<T>: None for strings (as pieces), JSON values and integers.
NoneStr == <<>>
NoneInt == 0 - 1

(***************************************************************************)
(* JSON values (serde_json::Value), one record shape for all of them:      *)
(* k is "null", "int" (a number held as an integer), "float" (a number     *)
(* held as f64; v is its integral part), "str" or "arr"; "none" stands for *)
(* Option::None of a Value.                                                *)
(***************************************************************************)
JNone == [k |-> "none", v |-> 0, a |-> <<>>]
JNull == [k |-> "null", v |-> 0, a |-> <<>>]
JInt(n) == [k |-> "int", v |-> n, a |-> <<>>]
JFloat(n) == [k |-> "float", v |-> n, a |-> <<>>]
JStr == [k |-> "str", v |-> 0, a |-> <<>>]
\* A number held as a u64 above i64::MAX.
JBig == [k |-> "uint", v |-> 0, a |-> <<>>]
JArr(s) == [k |-> "arr", v |-> 0, a |-> s]

(***************************************************************************)
(* The file system seen by the loader.  A path is a sequence of file       *)
(* names from the root.  The base directory is /srv/mods.                  *)
(***************************************************************************)
base_dir == <<"srv", "mods">>

Dirs == { <<>>, <<"srv">>, <<"srv", "mods">>, <<"srv", "mods", "sub">>, <<"etc">> }

\* Symbolic links: link path -> absolute target path.
SymlinkAt(p) ==
    CASE p = <<"srv", "mods", "out.wasm">> -> <<"etc", "evil.wasm">>
      [] p = <<"srv", "mods", "menu.wasm">> -> <<"srv", "mods", "caf_xE9.wasm">>
      [] OTHER -> <<>>

IsSymlink(p) == SymlinkAt(p) # <<>>

\* File names whose text contains the two characters "..".
NameContainsDotDot(name) == name \in {"..", "v1..2.wasm"}

\* File names that are not valid UTF-8 (OsStr::to_str gives None).
NameIsUtf8(name) == name # "caf_xE9.wasm"

\* Import lists (module name, field name) of the modules on disk.
WasiImport(name) == <<"wasi_snapshot_preview1", name>>

\* A function exported by a module: its signature and what its body does.
\*   add   returns the wrapping sum of its two i32 parameters
\*   div   returns the quotient, traps on a zero divisor
\*   spin  loops for ever
\*   nap   blocks in the host (WASI poll_oneoff) for nap seconds, returns
\*         (sleep.wasm for MaxNap seconds, pause.wasm for one)
\*   nop   returns at once with no result
\*   id    returns its parameters as its results, in order
\*   grow  memory.grow by its parameter in pages: returns the old size,
\*         executes `unreachable` when the growth is refused
FuncDef(p, r, b, n) == [params |-> p, results |-> r, body |-> b, nap |-> n]

\* A regular file: its length in bytes and, when the bytes are a Wasm
\* binary, the module they encode.  func_name = "" is a module that exports
\* no function; memory_pages = -1 one that exports no memory.
FileDef(len, wasm, imports, start_fuel, pages, fname, func) ==
    [len |-> len, wasm |-> wasm, imports |-> imports,
     start_fuel |-> start_fuel, memory_pages |-> pages,
     func_name |-> fname, func |-> func]

NoFunc == FuncDef(<<>>, <<>>, "none", 0)
NopFunc == FuncDef(<<>>, <<>>, "nop", 0)
PlainText == FileDef(1200, FALSE, <<>>, 0, -1, "", NoFunc)
ModuleWith(imports) == FileDef(900, TRUE, imports, 0, 1, "run", NopFunc)

FileNames ==
    { <<"srv", "mods", "add.wasm">>, <<"srv", "mods", "div.wasm">>,
      <<"srv", "mods", "loop.wasm">>, <<"srv", "mods", "sleep.wasm">>,
      <<"srv", "mods", "pause.wasm">>,
      <<"srv", "mods", "badimport.wasm">>, <<"srv", "mods", "print.wasm">>,
      <<"srv", "mods", "host.wasm">>, <<"srv", "mods", "envmem.wasm">>,
      <<"srv", "mods", "envtab.wasm">>, <<"srv", "mods", "wasi.wasm">>,
      <<"srv", "mods", "mixed.wasm">>, <<"srv", "mods", "big.wasm">>,
      <<"srv", "mods", "hog.wasm">>, <<"srv", "mods", "init.wasm">>,
      <<"srv", "mods", "grow.wasm">>, <<"srv", "mods", "warm.wasm">>,
      <<"srv", "mods", "v1..2.wasm">>, <<"srv", "mods", "caf_xE9.wasm">>,
      <<"srv", "mods", "readme.txt">>,
      <<"etc", "passwd">>, <<"etc", "evil.wasm">> }

FileAt(p) ==
    CASE p = <<"srv", "mods", "add.wasm">> ->
           FileDef(800, TRUE, <<>>, 0, 1, "add",
                   FuncDef(<<"I32", "I32">>, <<"I32">>, "add", 0))
      [] p = <<"srv", "mods", "div.wasm">> ->
           FileDef(800, TRUE, <<>>, 0, -1, "div",
                   FuncDef(<<"I32", "I32">>, <<"I32">>, "div", 0))
      [] p = <<"srv", "mods", "loop.wasm">> ->
           FileDef(700, TRUE, <<>>, 0, -1, "spin",
                   FuncDef(<<>>, <<>>, "spin", 0))
      [] p = <<"srv", "mods", "sleep.wasm">> ->
           FileDef(900, TRUE, <<WasiImport("poll_oneoff")>>, 0, 1, "nap",
                   FuncDef(<<>>, <<>>, "nap", MaxNap))
      [] p = <<"srv", "mods", "pause.wasm">> ->
           FileDef(900, TRUE, <<WasiImport("poll_oneoff")>>, 0, 1, "nap",
                   FuncDef(<<>>, <<>>, "nap", 1))
      [] p = <<"srv", "mods", "badimport.wasm">> ->
           ModuleWith(<<<<"env", "fd_write">>>>)
      [] p = <<"srv", "mods", "print.wasm">> ->
           ModuleWith(<<WasiImport("fd_write"), <<"env", "print">>>>)
      [] p = <<"srv", "mods", "host.wasm">> ->
           ModuleWith(<<<<"host", "memory">>>>)
      [] p = <<"srv", "mods", "envmem.wasm">> ->
           ModuleWith(<<<<"env", "memory">>>>)
      [] p = <<"srv", "mods", "envtab.wasm">> ->
           ModuleWith(<<<<"env", "table">>, WasiImport("fd_write")>>)
      [] p = <<"srv", "mods", "wasi.wasm">> ->
           ModuleWith(<<WasiImport("fd_write"), WasiImport("memory")>>)
      [] p = <<"srv", "mods", "mixed.wasm">> ->
           ModuleWith(<<<<"env", "memory">>, <<"wasi_unstable", "fd_write">>>>)
      [] p = <<"srv", "mods", "big.wasm">> ->
           FileDef(20000000, TRUE, <<>>, 0, 1, "run", NopFunc)
      [] p = <<"srv", "mods", "hog.wasm">> ->
           FileDef(900, TRUE, <<>>, 0, max_memory_pages + 1, "run", NopFunc)
      [] p = <<"srv", "mods", "init.wasm">> ->
           FileDef(900, TRUE, <<>>, fuel_limit + 1, 1, "run", NopFunc)
      [] p = <<"srv", "mods", "grow.wasm">> ->
           FileDef(900, TRUE, <<>>, 0, max_memory_pages - 2, "grow",
                   FuncDef(<<"I32">>, <<"I32">>, "grow", 0))
      [] p = <<"srv", "mods", "warm.wasm">> ->
           FileDef(900, TRUE, <<>>, 1, 1, "run", NopFunc)
      [] p = <<"srv", "mods", "v1..2.wasm">> ->
           ModuleWith(<<>>)
      [] p = <<"srv", "mods", "caf_xE9.wasm">> ->
           ModuleWith(<<>>)
      [] p = <<"etc", "evil.wasm">> ->
           ModuleWith(<<>>)
      [] OTHER -> PlainText

(***************************************************************************)
(* Path::new(&base_dir).join(&req.module_path).canonicalize()              *)
(***************************************************************************)
\* Path::join: an absolute argument replaces the base.
PathJoin(base, p) == IF p.abs THEN p.segs ELSE base \o p.segs

Parent(p) == IF p = <<>> THEN <<>> ELSE SubSeq(p, 1, Len(p) - 1)

\* fs::canonicalize: walk the components from the root, resolving ".",
\* ".." and symbolic links; every component must exist and every component
\* but the last must be a directory.  cur is the resolved prefix.
RECURSIVE Resolve(_, _)
Resolve(cur, rest) ==
    IF rest = <<>>
    THEN [ok |-> TRUE, path |-> cur]
    ELSE LET s == Head(rest)
             next == cur \o <<s>>
         IN  IF cur \notin Dirs
             THEN [ok |-> FALSE, path |-> <<>>]
             ELSE IF s = "."
             THEN Resolve(cur, Tail(rest))
             ELSE IF s = ".."
             THEN Resolve(Parent(cur), Tail(rest))
             ELSE IF IsSymlink(next)
             THEN Resolve(<<>>, SymlinkAt(next) \o Tail(rest))
             ELSE IF next \in Dirs \cup FileNames
             THEN Resolve(next, Tail(rest))
             ELSE [ok |-> FALSE, path |-> <<>>]

canonicalize(p) == Resolve(<<>>, p)

IsPrefix(pre, p) == Len(pre) <= Len(p) /\ SubSeq(p, 1, Len(pre)) = pre

\* module_path.to_str(): None when a component is not valid UTF-8.
PathIsUtf8(p) == \A i \in 1..Len(p) : NameIsUtf8(p[i])

\* module_path.to_str().unwrap().contains("..")
PathContainsDotDot(p) == \E i \in 1..Len(p) : NameContainsDotDot(p[i])

(***************************************************************************)
(* Results of fallible operations: err is the Display text of the error    *)
(* (the outermost anyhow context), as a sequence of pieces; <<>> is Ok.    *)
(***************************************************************************)
OkUnit == <<>>

(***************************************************************************)
(* validate_module_safety: the first import that is not allowed fails the  *)
(* module.                                                                 *)
(***************************************************************************)
\* validate_module_safety with the inner match on import.name() left out:
\* every import of module env is let through.
RECURSIVE validate_module_safety_any_env(_)
validate_module_safety_any_env(imports) ==
    IF imports = <<>>
    THEN OkUnit
    ELSE LET import == Head(imports)
         IN  IF import[1] \in {"wasi_snapshot_preview1", "env"}
             THEN validate_module_safety_any_env(Tail(imports))
             ELSE <<"Unauthorized import module: ", import[1]>>

RECURSIVE validate_module_safety(_)
validate_module_safety(imports) ==
    IF imports = <<>>
    THEN OkUnit
    ELSE LET import == Head(imports)
         IN  IF import[1] = "wasi_snapshot_preview1"
             THEN validate_module_safety(Tail(imports))
             ELSE IF import[1] = "env"
             THEN IF import[2] \in {"memory", "table"}
                  THEN validate_module_safety(Tail(imports))
                  ELSE <<"Unsafe import: env.", import[2]>>
             ELSE <<"Unauthorized import module: ", import[1]>>

(***************************************************************************)
(* ResourceLimiter (main.rs:365-378).                                      *)
(***************************************************************************)
\* memory_growing with < for <=: a growth to exactly the cap is refused.
memory_growing_below_cap(limiter, desired) == desired < limiter.memory_limit

memory_growing(limiter, desired) == desired <= limiter.memory_limit

table_growing(limiter, desired) == desired <= limiter.table_limit

(***************************************************************************)
(* The linker after wasmtime_wasi::add_to_linker: it defines the WASI      *)
(* preview-1 functions and nothing else.                                   *)
(***************************************************************************)
WasiFunctions == {"fd_write", "poll_oneoff", "clock_time_get", "proc_exit"}

LinkerDefines(import) ==
    import[1] = "wasi_snapshot_preview1" /\ import[2] \in WasiFunctions

(***************************************************************************)
(* Store::new, set_fuel(fuel_limit), set_epoch_deadline(1), limiter(..)    *)
(* (main.rs:219-231).  The deadline is relative to the engine's epoch at   *)
(* the time of the call.                                                   *)
(***************************************************************************)
\* NewStore without store.limiter(..): growth is bounded by the engine's
\* own, larger maxima only.
NewStore_no_limiter(engine_epoch) ==
    [fuel |-> fuel_limit,
     epoch_deadline |-> engine_epoch + 1,
     memory_pages |-> 0,
     limiter |-> [memory_limit |-> 2 * max_memory_pages * PageBytes,
                  table_limit |-> 2 * max_table_elements]]

NewStore(engine_epoch) ==
    [fuel |-> fuel_limit,
     epoch_deadline |-> engine_epoch + 1,
     memory_pages |-> 0,
     limiter |-> [memory_limit |-> max_memory_pages * PageBytes,
                  table_limit |-> max_table_elements]]

\* linker.instantiate: resolve the imports, create the memory through the
\* limiter, run the start function on the store's fuel.
Instantiate(st, module) ==
    IF \E i \in 1..Len(module.imports) : ~LinkerDefines(module.imports[i])
    THEN [ok |-> FALSE, store |-> st]
    ELSE IF module.memory_pages >= 0
            /\ ~memory_growing(st.limiter, module.memory_pages * PageBytes)
    THEN [ok |-> FALSE, store |-> st]
    ELSE IF module.start_fuel > st.fuel
    THEN [ok |-> FALSE, store |-> [st EXCEPT !.fuel = 0]]
    ELSE [ok |-> TRUE,
          store |-> [st EXCEPT !.fuel = @ - module.start_fuel,
                               !.memory_pages =
                                   IF module.memory_pages >= 0
                                   THEN module.memory_pages ELSE 0]]

(***************************************************************************)
(* Wasm values and the marshaller (main.rs:308-363).                       *)
(***************************************************************************)
Val(t, v) == [t |-> t, v |-> v]

RECURSIVE Pow2(_)
Pow2(n) == IF n = 0 THEN 1 ELSE 2 * Pow2(n - 1)

\* `x as i32`: keep the low I32Bits bits, read as two's complement.
AsI32(x) ==
    LET m == Pow2(I32Bits)
        low == x % m
    IN  IF low >= m \div 2 THEN low - m ELSE low

\* serde_json Number::as_i64: Some for a number held as an integer.
as_i64(json) == IF json.k = "int" THEN json.v ELSE NoneInt
as_i64_is_some(json) == json.k = "int"

RECURSIVE json_to_wasm_values(_, _)
json_to_wasm_values(params_array, param_types) ==
    IF params_array = <<>>
    THEN [err |-> OkUnit, vals |-> <<>>]
    ELSE LET json_param == Head(params_array)
             wasm_type == Head(param_types)
             isnum == json_param.k \in {"int", "uint", "float"}
             one ==
               IF isnum /\ wasm_type = "I32"
               THEN IF as_i64_is_some(json_param)
                    THEN [err |-> OkUnit,
                          vals |-> <<Val("I32", AsI32(as_i64(json_param)))>>]
                    ELSE [err |-> <<"Invalid i32">>, vals |-> <<>>]
               ELSE IF isnum /\ wasm_type = "I64"
               THEN IF as_i64_is_some(json_param)
                    THEN [err |-> OkUnit,
                          vals |-> <<Val("I64", as_i64(json_param))>>]
                    ELSE [err |-> <<"Invalid i64">>, vals |-> <<>>]
               ELSE IF isnum /\ wasm_type \in {"F32", "F64"}
               THEN [err |-> OkUnit, vals |-> <<Val(wasm_type, json_param.v)>>]
               ELSE [err |-> <<"Unsupported parameter type combination">>,
                     vals |-> <<>>]
         IN  IF one.err # OkUnit
             THEN one
             ELSE LET rest == json_to_wasm_values(Tail(params_array),
                                                  Tail(param_types))
                  IN  IF rest.err # OkUnit
                      THEN rest
                      ELSE [err |-> OkUnit, vals |-> one.vals \o rest.vals]

\* json_to_wasm_params asking only for enough parameters: the elements
\* past the declared count are left out by the zip.
json_to_wasm_params_enough(json, param_types) ==
    IF json.k # "arr"
    THEN [err |-> <<"Parameters must be an array">>, vals |-> <<>>]
    ELSE IF Len(json.a) < Len(param_types)
    THEN [err |-> <<"Parameter count mismatch">>, vals |-> <<>>]
    ELSE json_to_wasm_values(SubSeq(json.a, 1, Len(param_types)),
                             param_types)

json_to_wasm_params(json, param_types) ==
    IF json.k # "arr"
    THEN [err |-> <<"Parameters must be an array">>, vals |-> <<>>]
    ELSE IF Len(json.a) # Len(param_types)
    THEN [err |-> <<"Parameter count mismatch">>, vals |-> <<>>]
    ELSE json_to_wasm_values(json.a, param_types)

\* wasm_val_to_json reading an i32 result as unsigned (`*i as u32`).
wasm_val_to_json_unsigned(val) ==
    IF val.t = "I32" /\ val.v < 0
    THEN JInt(val.v + Pow2(I32Bits))
    ELSE IF val.t \in {"I32", "I64"} THEN JInt(val.v) ELSE JFloat(val.v)

wasm_val_to_json(val) ==
    IF val.t \in {"I32", "I64"} THEN JInt(val.v) ELSE JFloat(val.v)

wasm_results_to_json(results) ==
    IF Len(results) = 1
    THEN wasm_val_to_json(results[1])
    ELSE JArr([i \in 1..Len(results) |-> wasm_val_to_json(results[i])])

(***************************************************************************)
(* func.call: the guest runs on the store's fuel.  The epoch deadline is   *)
(* checked on entry and at loop back-edges against the engine's epoch;     *)
(* running out of fuel and a passed deadline are both traps.               *)
(***************************************************************************)
\* i32.div_s rounds toward zero.
Abs(x) == IF x < 0 THEN 0 - x ELSE x
TruncDiv(a, b) ==
    IF (a < 0) = (b < 0) THEN Abs(a) \div Abs(b) ELSE 0 - (Abs(a) \div Abs(b))

I32Min == 0 - Pow2(I32Bits - 1)

BodyFuel(body) ==
    CASE body = "add" -> 2
      [] body = "div" -> 2
      [] body = "grow" -> 2
      [] OTHER -> 1

func_call(st, func, args, engine_epoch) ==
    IF engine_epoch >= st.epoch_deadline
    THEN [trap |-> "interrupt", fuel |-> st.fuel, pages |-> st.memory_pages,
          results |-> <<>>]
    ELSE IF func.body = "spin" \/ BodyFuel(func.body) > st.fuel
    THEN [trap |-> "all fuel consumed", fuel |-> 0,
          pages |-> st.memory_pages, results |-> <<>>]
    ELSE LET left == st.fuel - BodyFuel(func.body)
             done(trap, results) ==
                 [trap |-> trap, fuel |-> left, pages |-> st.memory_pages,
                  results |-> results]
         IN  CASE func.body = "add" ->
                    done("", <<Val("I32", AsI32(args[1].v + args[2].v))>>)
               [] func.body = "div" ->
                    IF args[2].v = 0
                    THEN done("integer divide by zero", <<>>)
                    ELSE IF args[1].v = I32Min /\ args[2].v = -1
                    THEN done("integer overflow", <<>>)
                    ELSE done("", <<Val("I32", TruncDiv(args[1].v, args[2].v))>>)
               [] func.body = "id" ->
                    done("", args)
               [] func.body = "grow" ->
                    \* memory.grow takes its operand as a u32; the limiter
                    \* decides; the guest traps when it is refused.
                    LET want == st.memory_pages + args[1].v
                    IN  IF args[1].v < 0
                           \/ ~memory_growing(st.limiter, want * PageBytes)
                        THEN done("unreachable", <<>>)
                        ELSE [trap |-> "", fuel |-> left, pages |-> want,
                              results |-> <<Val("I32", st.memory_pages)>>]
               [] OTHER ->
                    done("", <<>>)

(***************************************************************************)
(* ExecuteRequest / ExecuteResponse (main.rs:81-97).                       *)
(***************************************************************************)
RelPath(text, segs) == [text |-> text, abs |-> FALSE, segs |-> segs]
AbsPath(text, segs) == [text |-> text, abs |-> TRUE, segs |-> segs]

ExecuteRequest(path, fname, params, timeout_seconds) ==
    [module_path |-> path, function_name |-> fname, params |-> params,
     timeout_seconds |-> timeout_seconds]

ExecuteResponse(success, result, error, ms, mem, fuel) ==
    [success |-> success, result |-> result, error |-> error,
     execution_time_ms |-> ms, memory_used_bytes |-> mem,
     fuel_consumed |-> fuel]

NoResponse == ExecuteResponse(FALSE, JNone, NoneStr, -1, -1, -1)

(***************************************************************************)
(* execute_plugin_safe, first part (main.rs:191-251 up to func.call):      *)
(* resolve and read the module, parse, validate, set up the store,         *)
(* instantiate, look the function up, marshal the parameters.  steps are   *)
(* the operations performed, in order.                                     *)
(*   outcome "panic": to_str().unwrap() on a non-UTF-8 path                *)
(*   outcome "err":   an Err is returned                                   *)
(*   outcome "call":  the guest function is entered                        *)
(***************************************************************************)
NoStore == [fuel |-> 0, epoch_deadline |-> 0, memory_pages |-> 0,
            limiter |-> [memory_limit |-> 0, table_limit |-> 0]]

Prepared(outcome, err, steps, st, module, args) ==
    [outcome |-> outcome, err |-> err, steps |-> steps, store |-> st,
     module |-> module, args |-> args]

Failed(err, steps) == Prepared("err", err, steps, NoStore, PlainText, <<>>)

execute_plugin_prepare(req, engine_epoch) ==
    LET canon == canonicalize(PathJoin(base_dir, req.module_path))
        module_path == canon.path
        file == FileAt(module_path)
        module == file
        verdict == validate_module_safety(module.imports)
        inst == Instantiate(NewStore(engine_epoch), module)
        found == module.func_name # "" /\ module.func_name = req.function_name
        marshalled == json_to_wasm_params(req.params, module.func.params)
        s1 == <<"canonicalize">>
        s2 == s1 \o <<"read">>
        s3 == s2 \o <<"parse">>
        s4 == s3 \o <<"validate">>
        s5 == s4 \o <<"store", "instantiate">>
        s6 == s5 \o <<"get_func">>
        s7 == s6 \o <<"marshal_in">>
    IN  IF ~canon.ok
        THEN Failed(<<"Invalid module path: ", req.module_path.text>>, s1)
        ELSE IF ~PathIsUtf8(module_path)
        THEN Prepared("panic", OkUnit, s1, NoStore, PlainText, <<>>)
        ELSE IF PathContainsDotDot(module_path)
        THEN Failed(<<"Directory traversal detected">>, s1)
        ELSE IF module_path \notin FileNames
        THEN Failed(<<"Failed to read WASM module at ">> \o module_path, s2)
        ELSE IF file.len > MaxModuleBytes
        THEN Failed(<<"Module too large">>, s2)
        ELSE IF ~file.wasm
        THEN Failed(<<"Failed to parse WASM module">>, s3)
        ELSE IF verdict # OkUnit
        THEN Failed(verdict, s4)
        ELSE IF ~inst.ok
        THEN Failed(<<"Failed to instantiate module">>, s5)
        ELSE IF ~found
        THEN Failed(<<"Function not found">>, s6)
        ELSE IF marshalled.err # OkUnit
        THEN Failed(<<"Function execution failed">>, s7)
        ELSE Prepared("call", OkUnit, s7 \o <<"invoke">>, inst.store, module,
                      marshalled.vals)

(***************************************************************************)
(* execute_plugin_safe, second part (main.rs:303-305, 251-271): func.call  *)
(* returns after elapsed_secs; marshal the results, meter, build the       *)
(* response.                                                               *)
(***************************************************************************)
MemoryBytes(module, pages) ==
    IF module.memory_pages >= 0 THEN pages * PageBytes ELSE 0

\* execute_plugin_finish reporting the fuel that is left as the fuel consumed.
execute_plugin_finish_remaining(st, module, args, elapsed_secs, engine_epoch) ==
    LET called == func_call(st, module.func, args, engine_epoch)
        after == [st EXCEPT !.fuel = called.fuel,
                            !.memory_pages = called.pages]
        initial_memory == MemoryBytes(module, st.memory_pages)
        final_memory == MemoryBytes(module, after.memory_pages)
        fuel_consumed == after.fuel
    IN  IF called.trap # ""
        THEN [err |-> <<"Function execution failed">>, trap |-> called.trap,
              steps |-> <<>>, store |-> after, response |-> NoResponse]
        ELSE [err |-> OkUnit, trap |-> "",
              steps |-> <<"marshal_out">>, store |-> after,
              response |->
                 ExecuteResponse(TRUE, wasm_results_to_json(called.results),
                                 NoneStr, elapsed_secs * 1000,
                                 final_memory - initial_memory, fuel_consumed)]

execute_plugin_finish(st, module, args, elapsed_secs, engine_epoch) ==
    LET called == func_call(st, module.func, args, engine_epoch)
        after == [st EXCEPT !.fuel = called.fuel,
                            !.memory_pages = called.pages]
        initial_memory == MemoryBytes(module, st.memory_pages)
        final_memory == MemoryBytes(module, after.memory_pages)
        fuel_consumed == fuel_limit - after.fuel
    IN  IF called.trap # ""
        THEN [err |-> <<"Function execution failed">>, trap |-> called.trap,
              steps |-> <<>>, store |-> after, response |-> NoResponse]
        ELSE [err |-> OkUnit, trap |-> "",
              steps |-> <<"marshal_out">>, store |-> after,
              response |->
                 ExecuteResponse(TRUE, wasm_results_to_json(called.results),
                                 NoneStr, elapsed_secs * 1000,
                                 final_memory - initial_memory, fuel_consumed)]

(***************************************************************************)
(* The requests the handlers are given.                                    *)
(***************************************************************************)
InBase(name) == RelPath(name, <<name>>)
Run(name) == ExecuteRequest(InBase(name), "run", JArr(<<>>), NoneInt)
Add(params, timeout_seconds) ==
    ExecuteRequest(InBase("add.wasm"), "add", params, timeout_seconds)
Two(a, b) == JArr(<<JInt(a), JInt(b)>>)

Catalog ==
    << Add(Two(2, 3), NoneInt),
       ExecuteRequest(InBase("pause.wasm"), "nap", JArr(<<>>), NoneInt),
       ExecuteRequest(InBase("sleep.wasm"), "nap", JArr(<<>>), 1),
       ExecuteRequest(InBase("loop.wasm"), "spin", JArr(<<>>), 1),
       ExecuteRequest(InBase("sleep.wasm"), "nap", JArr(<<>>), 0),
       ExecuteRequest(InBase("sleep.wasm"), "nap", JArr(<<>>), NoneInt),
       Add(Two(2, 3), 0),
       Add(Two(2, 3), 1000),
       Add(Two(7, 12), 300),
       Add(JArr(<<JInt(1)>>), NoneInt),
       Add(JNull, NoneInt),
       Add(JArr(<<JFloat(2), JInt(3)>>), NoneInt),
       Add(JArr(<<JStr, JInt(3)>>), NoneInt),
       ExecuteRequest(InBase("add.wasm"), "memory", Two(2, 3), NoneInt),
       ExecuteRequest(InBase("div.wasm"), "div", Two(1, 0), NoneInt),
       ExecuteRequest(InBase("div.wasm"), "div", Two(-7, 2), NoneInt),
       ExecuteRequest(RelPath("../etc/passwd", <<"..", "etc", "passwd">>),
                      "run", JArr(<<>>), NoneInt),
       ExecuteRequest(RelPath("../../etc/passwd",
                              <<"..", "..", "etc", "passwd">>),
                      "run", JArr(<<>>), NoneInt),
       ExecuteRequest(AbsPath("/etc/evil.wasm", <<"etc", "evil.wasm">>),
                      "run", JArr(<<>>), NoneInt),
       ExecuteRequest(RelPath("sub/../add.wasm", <<"sub", "..", "add.wasm">>),
                      "add", Two(2, 3), NoneInt),
       ExecuteRequest(RelPath("sub", <<"sub">>), "run", JArr(<<>>), NoneInt),
       Run("out.wasm"), Run("menu.wasm"), Run("v1..2.wasm"),
       Run("missing.wasm"), Run("readme.txt"),
       Run("badimport.wasm"), Run("print.wasm"), Run("host.wasm"),
       Run("envmem.wasm"), Run("envtab.wasm"), Run("wasi.wasm"),
       Run("mixed.wasm"), Run("big.wasm"), Run("hog.wasm"), Run("init.wasm"),
       ExecuteRequest(InBase("grow.wasm"), "grow", JArr(<<JInt(1)>>), NoneInt),
       ExecuteRequest(InBase("grow.wasm"), "grow", JArr(<<JInt(3)>>), NoneInt),
       Run("warm.wasm") >>

\* The first handler is given any request of the catalog, the others the
\* blocking call of pause.wasm.
RequestsOf(h) == IF h = 1 THEN 1..Len(Catalog) ELSE {2}

(***************************************************************************)
(* State.                                                                  *)
(***************************************************************************)
VARIABLES
    active_instances,   \* ServiceState.active_instances
    epoch,              \* the engine's current epoch
    metrics,            \* the metrics the handlers record
    pc,                 \* where each handler task is
    req,                \* the request of each handler: an index of Catalog
    current_instances,  \* handle_execute's local: the fetch_add result,
                        \* kept until its one use in the comparison
    execution_timeout,  \* handle_execute's local, in seconds
    store,              \* the Store of the invocation
    elapsed,            \* seconds since `start` of the invocation
    result,             \* handle_execute's local `result`
    response,           \* the reply written by the handler
    log,                \* the operations each handler has performed, in order
    connected,          \* whether the client of each handler is still there
                        \* (clients leave in SpecLeave)
    probe,              \* the function call under examination (SpecFn)
    batch_buffer,       \* EventProcessor.batch_buffer: the Vec in the Mutex
    buffer_lock,        \* the task that holds the batch_buffer Mutex
    received,           \* how many events the consumer has handed over
    caller,             \* where each call of process_event is
    flush_task,         \* where the spawned batch flush task is
    clickhouse,         \* the `events` table: rows written, per event
    drained             \* in how many flush batches each event was taken

processor_vars == <<batch_buffer, buffer_lock, received, caller, flush_task,
                    clickhouse, drained>>

vars == <<active_instances, epoch, metrics, pc, req, current_instances,
          execution_timeout, store, elapsed, result, response, log,
          connected, probe, processor_vars>>

handler_vars == <<active_instances, epoch, metrics, pc, req,
                  current_instances, execution_timeout, store, elapsed,
                  result, response, log, connected>>

NoProbe == [fn |-> "none"]

(***************************************************************************)
(* The event ingestion service's EventProcessor                            *)
(* (event-ingestion-service/src/processors/event_processor.rs).  Events    *)
(* are numbered in the order the consumer receives them.  Callers are the  *)
(* tasks that call process_event; task 0 is the batch flush task spawned   *)
(* by EventProcessor::new.                                                 *)
(***************************************************************************)
Callers == 1 .. NumCallers

Events == 1 .. MaxEvents

FlushTask == 0

Unlocked == 0 - 1

NoCall == [pc |-> "idle", processed_event |-> 0, events_to_flush |-> <<>>]

InitProcessor ==
    /\ batch_buffer = <<>>
    /\ buffer_lock = Unlocked
    /\ received = 0
    /\ caller = [c \in Callers |-> NoCall]
    /\ flush_task = [pc |-> "tick", events_to_flush |-> <<>>]
    /\ clickhouse = [e \in Events |-> 0]
    /\ drained = [e \in Events |-> 0]

Request(h) == Catalog[req[h]]

NoResult == [tag |-> "none", err |-> OkUnit, response |-> NoResponse]

Init ==
    /\ active_instances = 0
    /\ epoch = 0
    /\ metrics = [executions_success |-> 0,
                  failures_instance_limit |-> 0,
                  failures_execution_error |-> 0,
                  failures_timeout |-> 0,
                  duration_observations |-> 0]
    /\ pc = [h \in Handlers |-> "idle"]
    /\ req = [h \in Handlers |-> 0]
    /\ current_instances = [h \in Handlers |-> 0]
    /\ execution_timeout = [h \in Handlers |-> 0]
    /\ store = [h \in Handlers |-> NoStore]
    /\ elapsed = [h \in Handlers |-> 0]
    /\ result = [h \in Handlers |-> NoResult]
    /\ response = [h \in Handlers |-> NoResponse]
    /\ log = [h \in Handlers |-> <<>>]
    /\ connected = [h \in Handlers |-> TRUE]
    /\ probe = NoProbe
    /\ InitProcessor

(***************************************************************************)
(* The metrics macros as handle_execute uses them.  `counter!(name,        *)
(* labels);` and `gauge!(name);` are statements that obtain the handle and *)
(* drop it: no increment or set is called on it.  Only the histogram       *)
(* handle is used, by `.record(..)`.                                       *)
(***************************************************************************)
counter(m, name) == m

gauge(m, name) == m

histogram_record(m) == [m EXCEPT !.duration_observations = @ + 1]

(***************************************************************************)
(* tokio::time::timeout(duration, future).await: each poll polls the       *)
(* wrapped future first and looks at the timer only when that is pending.  *)
(***************************************************************************)
\* timeout looking at the timer only: the wrapped future is left to a later
\* poll, so the first poll of a call within its time is Pending.
timeout_timer_only(value_ready, delay_elapsed, value) ==
    IF delay_elapsed
    THEN [tag |-> "Elapsed", err |-> OkUnit, response |-> NoResponse]
    ELSE [tag |-> "Pending", err |-> OkUnit, response |-> NoResponse]

timeout(value_ready, delay_elapsed, value) ==
    IF value_ready
    THEN [tag |-> "Ok", err |-> value.err, response |-> value.response]
    ELSE IF delay_elapsed
    THEN [tag |-> "Elapsed", err |-> OkUnit, response |-> NoResponse]
    ELSE [tag |-> "Pending", err |-> OkUnit, response |-> NoResponse]

\* `.await` on the timeout future: the handler goes on with a ready
\* value, and is suspended (its future returns Pending to hyper) otherwise.
AfterAwait(polled) == IF polled.tag = "Pending" THEN "suspended" ELSE "release"

Min(a, b) == IF a <= b THEN a ELSE b

\* Duration::from_secs(req.timeout_seconds.unwrap_or(30).min(300))
ExecutionTimeout(timeout_seconds) ==
    Min(IF timeout_seconds = NoneInt THEN DefaultTimeoutSecs
        ELSE timeout_seconds, MaxTimeoutSecs)

\* The rejection reply carrying the fuel budget in fuel_consumed.
TooManyInstances_full_fuel ==
    ExecuteResponse(FALSE, JNone, <<"Too many active instances">>, 0, 0,
                    fuel_limit)

TooManyInstances ==
    ExecuteResponse(FALSE, JNone, <<"Too many active instances">>, 0, 0, 0)

(***************************************************************************)
(* handle_execute, line 132: a request arrives and the handler does the    *)
(* fetch_add.  Handlers 2.. are given the same request, so they are        *)
(* started in the order of their numbers (a symmetry reduction).           *)
(***************************************************************************)
\* Start taking the value after the increment for the value before it.
Start_add_fetch(h, r) ==
    /\ pc[h] = "idle"
    /\ h > 2 => pc[h - 1] # "idle"
    /\ req' = [req EXCEPT ![h] = r]
    /\ current_instances' =
          [current_instances EXCEPT ![h] = active_instances + 1]
    /\ active_instances' = active_instances + 1
    /\ log' = [log EXCEPT ![h] = <<"fetch_add">>]
    /\ pc' = [pc EXCEPT ![h] = "check"]
    /\ UNCHANGED <<connected, probe, processor_vars>>
    /\ UNCHANGED <<epoch, metrics, execution_timeout, store, elapsed, result,
                   response>>

Start(h, r) ==
    /\ pc[h] = "idle"
    /\ h > 2 => pc[h - 1] # "idle"
    /\ req' = [req EXCEPT ![h] = r]
    /\ current_instances' = [current_instances EXCEPT ![h] = active_instances]
    /\ active_instances' = active_instances + 1
    /\ log' = [log EXCEPT ![h] = <<"fetch_add">>]
    /\ pc' = [pc EXCEPT ![h] = "check"]
    /\ UNCHANGED <<connected, probe, processor_vars>>
    /\ UNCHANGED <<epoch, metrics, execution_timeout, store, elapsed, result,
                   response>>

(***************************************************************************)
(* handle_execute, lines 133-144: over the limit.                          *)
(***************************************************************************)
Reject(h) ==
    /\ pc[h] = "check"
    /\ current_instances[h] >= max_instances
    /\ active_instances' = active_instances - 1
    /\ metrics' = counter(metrics, "failures_instance_limit")
    /\ response' = [response EXCEPT ![h] = TooManyInstances]
    /\ log' = [log EXCEPT ![h] = @ \o <<"fetch_sub", "counter", "reply">>]
    /\ current_instances' = [current_instances EXCEPT ![h] = 0]
    /\ pc' = [pc EXCEPT ![h] = "done"]
    /\ UNCHANGED <<connected, probe, processor_vars>>
    /\ UNCHANGED <<epoch, req, execution_timeout, store, elapsed, result>>

(***************************************************************************)
(* handle_execute, lines 145-148: admitted; the timeout future polls       *)
(* execute_plugin_safe, which runs up to the guest call, or returns an     *)
(* Err, or panics.  A panic unwinds the handler task.                      *)
(***************************************************************************)
\* Execute with the limit test written `>` for `>=`: a request that finds
\* max_instances others is let in.
Execute_off_by_one(h) ==
    /\ pc[h] = "check"
    /\ current_instances[h] <= max_instances
    /\ LET timeout_secs == ExecutionTimeout(Request(h).timeout_seconds)
           prep == execute_plugin_prepare(Request(h), epoch)
       IN  /\ execution_timeout' = [execution_timeout EXCEPT ![h] = timeout_secs]
           /\ log' = [log EXCEPT ![h] = @ \o <<"admitted">> \o prep.steps]
           /\ store' = [store EXCEPT ![h] = prep.store]
           /\ IF prep.outcome = "panic"
              THEN /\ pc' = [pc EXCEPT ![h] = "panicked"]
                   /\ UNCHANGED result
              ELSE IF prep.outcome = "err"
              THEN LET polled == timeout(TRUE, elapsed[h] >= timeout_secs,
                                         [err |-> prep.err,
                                          response |-> NoResponse])
                   IN  /\ pc' = [pc EXCEPT ![h] = AfterAwait(polled)]
                       /\ result' = [result EXCEPT ![h] = polled]
              ELSE /\ pc' = [pc EXCEPT ![h] = "guest"]
                   /\ UNCHANGED result
    /\ current_instances' = [current_instances EXCEPT ![h] = 0]
    /\ UNCHANGED <<connected, probe, processor_vars>>
    /\ UNCHANGED <<active_instances, epoch, metrics, req, elapsed, response>>

Execute(h) ==
    /\ pc[h] = "check"
    /\ current_instances[h] < max_instances
    /\ LET timeout_secs == ExecutionTimeout(Request(h).timeout_seconds)
           prep == execute_plugin_prepare(Request(h), epoch)
       IN  /\ execution_timeout' = [execution_timeout EXCEPT ![h] = timeout_secs]
           /\ log' = [log EXCEPT ![h] = @ \o <<"admitted">> \o prep.steps]
           /\ store' = [store EXCEPT ![h] = prep.store]
           /\ IF prep.outcome = "panic"
              THEN /\ pc' = [pc EXCEPT ![h] = "panicked"]
                   /\ UNCHANGED result
              ELSE IF prep.outcome = "err"
              THEN LET polled == timeout(TRUE, elapsed[h] >= timeout_secs,
                                         [err |-> prep.err,
                                          response |-> NoResponse])
                   IN  /\ pc' = [pc EXCEPT ![h] = AfterAwait(polled)]
                       /\ result' = [result EXCEPT ![h] = polled]
              ELSE /\ pc' = [pc EXCEPT ![h] = "guest"]
                   /\ UNCHANGED result
    /\ current_instances' = [current_instances EXCEPT ![h] = 0]
    /\ UNCHANGED <<connected, probe, processor_vars>>
    /\ UNCHANGED <<active_instances, epoch, metrics, req, elapsed, response>>

(***************************************************************************)
(* The guest is blocked in a host call while a second passes.              *)
(***************************************************************************)
GuestFunc(h) == execute_plugin_prepare(Request(h), epoch).module.func

GuestTick(h) ==
    /\ pc[h] = "guest"
    /\ elapsed[h] < GuestFunc(h).nap
    /\ elapsed' = [elapsed EXCEPT ![h] = @ + 1]
    /\ UNCHANGED <<connected, probe, processor_vars>>
    /\ UNCHANGED <<active_instances, epoch, metrics, pc, req,
                   current_instances, execution_timeout, store, result,
                   response, log>>

\* ExecEnd with one Store kept for the service and used by every
\* invocation: the call runs on the store of the first handler that has
\* set one up.
ExecEnd_one_store(h) ==
    /\ pc[h] = "guest"
    /\ elapsed[h] = GuestFunc(h).nap
    /\ LET prep == execute_plugin_prepare(Request(h), epoch)
           FirstStored ==
               CHOOSE g \in Handlers :
                   /\ store[g] # NoStore
                   /\ \A k \in Handlers : store[k] # NoStore => g <= k
           fin == execute_plugin_finish(store[FirstStored], prep.module,
                                        prep.args, elapsed[h], epoch)
           polled == timeout(TRUE, elapsed[h] >= execution_timeout[h],
                             [err |-> fin.err, response |-> fin.response])
       IN  /\ result' = [result EXCEPT ![h] = polled]
           /\ store' = [store EXCEPT ![h] = fin.store]
           /\ log' = [log EXCEPT ![h] = @ \o fin.steps]
           /\ pc' = [pc EXCEPT ![h] = AfterAwait(polled)]
    /\ UNCHANGED <<connected, probe, processor_vars>>
    /\ UNCHANGED <<active_instances, epoch, metrics, req, current_instances,
                   execution_timeout, elapsed, response>>

(***************************************************************************)
(* func.call returns or traps; execute_plugin_safe completes, and with it  *)
(* the timeout future (main.rs:148).                                       *)
(***************************************************************************)
ExecEnd(h) ==
    /\ pc[h] = "guest"
    /\ elapsed[h] = GuestFunc(h).nap
    /\ LET prep == execute_plugin_prepare(Request(h), epoch)
           fin == execute_plugin_finish(store[h], prep.module, prep.args,
                                        elapsed[h], epoch)
           polled == timeout(TRUE, elapsed[h] >= execution_timeout[h],
                             [err |-> fin.err, response |-> fin.response])
       IN  /\ result' = [result EXCEPT ![h] = polled]
           /\ store' = [store EXCEPT ![h] = fin.store]
           /\ log' = [log EXCEPT ![h] = @ \o fin.steps]
           /\ pc' = [pc EXCEPT ![h] = AfterAwait(polled)]
    /\ UNCHANGED <<connected, probe, processor_vars>>
    /\ UNCHANGED <<active_instances, epoch, metrics, req, current_instances,
                   execution_timeout, elapsed, response>>

(***************************************************************************)
(* handle_execute, lines 150-151.                                          *)
(***************************************************************************)
Release(h) ==
    /\ pc[h] = "release"
    /\ active_instances' = active_instances - 1
    /\ metrics' = gauge(metrics, "active_plugin_instances")
    /\ log' = [log EXCEPT ![h] = @ \o <<"fetch_sub">>]
    /\ pc' = [pc EXCEPT ![h] = "report"]
    /\ UNCHANGED <<connected, probe, processor_vars>>
    /\ UNCHANGED <<epoch, req, current_instances, execution_timeout, store,
                   elapsed, result, response>>

(***************************************************************************)
(* handle_execute, lines 152-183: the match on `result`.                   *)
(***************************************************************************)
Report(h) ==
    /\ pc[h] = "report"
    /\ IF result[h].tag = "Ok" /\ result[h].err = OkUnit
       THEN /\ metrics' = histogram_record(counter(metrics, "executions_success"))
            /\ response' = [response EXCEPT ![h] = result[h].response]
            /\ log' = [log EXCEPT ![h] = @ \o <<"counter", "histogram", "reply">>]
       ELSE IF result[h].tag = "Ok"
       THEN /\ metrics' = counter(metrics, "failures_execution_error")
            /\ response' = [response EXCEPT ![h] =
                   ExecuteResponse(FALSE, JNone,
                                   <<"Execution error: ">> \o result[h].err,
                                   0, 0, 0)]
            /\ log' = [log EXCEPT ![h] = @ \o <<"counter", "reply">>]
       ELSE /\ metrics' = counter(metrics, "failures_timeout")
            /\ response' = [response EXCEPT ![h] =
                   ExecuteResponse(FALSE, JNone, <<"Execution timed out">>,
                                   execution_timeout[h] * 1000, 0, 0)]
            /\ log' = [log EXCEPT ![h] = @ \o <<"counter", "reply">>]
    /\ pc' = [pc EXCEPT ![h] = "done"]
    /\ UNCHANGED <<connected, probe, processor_vars>>
    /\ UNCHANGED <<active_instances, epoch, req, current_instances,
                   execution_timeout, store, elapsed, result>>

Next ==
    \E h \in Handlers :
        \/ \E r \in RequestsOf(h) : Start(h, r)
        \/ Reject(h)
        \/ Execute(h)
        \/ GuestTick(h)
        \/ ExecEnd(h)
        \/ Release(h)
        \/ Report(h)

Spec == Init /\ [][Next]_vars

(***************************************************************************)
(* The client goes away while its request is being handled.  hyper drops   *)
(* the connection's future, and with it the handler's future, but it can   *)
(* do so only while the handler is suspended at an `.await`: a handler     *)
(* that is running is not interrupted.                                     *)
(***************************************************************************)
\* The handlers with a client that may leave, at any time.
Leavers == {1}

InFlight(h) == pc[h] \in {"check", "guest", "suspended", "release", "report"}

Disconnect(h) ==
    /\ h \in Leavers
    /\ connected[h]
    /\ InFlight(h)
    /\ connected' = [connected EXCEPT ![h] = FALSE]
    /\ IF pc[h] = "suspended"
       THEN /\ pc' = [pc EXCEPT ![h] = "dropped"]
            /\ log' = [log EXCEPT ![h] = @ \o <<"dropped">>]
       ELSE UNCHANGED <<pc, log>>
    /\ UNCHANGED <<active_instances, epoch, metrics, req, current_instances,
                   execution_timeout, store, elapsed, result, response,
                   probe, processor_vars>>

\* The first handler is given a request of each kind of outcome: a result, a blocking call,
\* a blocking call past its timeout, fuel exhaustion, bad parameters, a
\* trap, a panic, a missing file.
LeaveRequestsOf(h) == IF h = 1 THEN {1, 2, 3, 4, 11, 15, 23, 25} ELSE {2}

NextLeave ==
    \E h \in Handlers :
        \/ \E r \in LeaveRequestsOf(h) : Start(h, r)
        \/ Reject(h)
        \/ Execute(h)
        \/ GuestTick(h)
        \/ ExecEnd(h)
        \/ Release(h)
        \/ Report(h)
        \/ Disconnect(h)

SpecLeave == Init /\ [][NextLeave]_vars

(***************************************************************************)
(* Requests one after the other: a handler task that has replied is over,  *)
(* and the next request of the connection gets a task of its own, here the *)
(* same handler number with the locals of a new task.  All requests are    *)
(* the blocking call of pause.wasm.                                        *)
(***************************************************************************)
Recycle(h) ==
    /\ pc[h] = "done"
    /\ metrics.duration_observations < MaxServed
    /\ pc' = [pc EXCEPT ![h] = "idle"]
    /\ req' = [req EXCEPT ![h] = 0]
    /\ execution_timeout' = [execution_timeout EXCEPT ![h] = 0]
    /\ store' = [store EXCEPT ![h] = NoStore]
    /\ elapsed' = [elapsed EXCEPT ![h] = 0]
    /\ result' = [result EXCEPT ![h] = NoResult]
    /\ response' = [response EXCEPT ![h] = NoResponse]
    /\ log' = [log EXCEPT ![h] = <<>>]
    /\ UNCHANGED <<active_instances, epoch, metrics, current_instances,
                   connected, probe, processor_vars>>

NextRush ==
    \E h \in Handlers :
        \/ Start(h, 2)
        \/ Reject(h)
        \/ Execute(h)
        \/ GuestTick(h)
        \/ ExecEnd(h)
        \/ Release(h)
        \/ Report(h)
        \/ Recycle(h)

SpecRush == Init /\ [][NextRush]_vars

(***************************************************************************)
(* execute_function_with_params (main.rs:292-306): marshal the parameters, *)
(* call the function, marshal the results; `?` hands the first error on.   *)
(* entered tells whether func.call was reached.                            *)
(***************************************************************************)
execute_function_with_params(st, func, params, engine_epoch) ==
    LET wasm_params == json_to_wasm_params(params, func.params)
        called == func_call(st, func, wasm_params.vals, engine_epoch)
    IN  IF wasm_params.err # OkUnit
        THEN [err |-> wasm_params.err, entered |-> FALSE, args |-> <<>>,
              result |-> JNone]
        ELSE IF called.trap # ""
        THEN [err |-> <<called.trap>>, entered |-> TRUE,
              args |-> wasm_params.vals, result |-> JNone]
        ELSE [err |-> OkUnit, entered |-> TRUE, args |-> wasm_params.vals,
              result |-> wasm_results_to_json(called.results)]

(***************************************************************************)
(* The marshaller and the limiter on their own: one call of                *)
(* execute_function_with_params on a guest function and a params value,    *)
(* or one question to the limiter, drawn from the sets below.              *)
(***************************************************************************)
I32Max == Pow2(I32Bits - 1) - 1

\* Guest functions by signature: the sum, the identities on one i32, one
\* i64 and a pair, and a function without parameters or results.
ProbeFuncs ==
    { FuncDef(<<"I32", "I32">>, <<"I32">>, "add", 0),
      FuncDef(<<"I32">>, <<"I32">>, "id", 0),
      FuncDef(<<"I64">>, <<"I64">>, "id", 0),
      FuncDef(<<"I32", "I64">>, <<"I32", "I64">>, "id", 0),
      NopFunc }

\* JSON integers from below the least i32 to above the greatest.
ProbeInts == (I32Min - ProbeBeyond)..(I32Max + ProbeBeyond)

ProbeElems == {JInt(v) : v \in ProbeInts} \cup {JBig, JFloat(1), JStr}

ProbeParams ==
    {JNull, JStr, JInt(0), JArr(<<>>),
     JArr(<<JInt(1), JInt(2), JInt(3)>>)}
    \cup {JArr(<<x>>) : x \in ProbeElems}
    \cup {JArr(<<x, y>>) : x \in ProbeElems, y \in ProbeElems}

\* Sizes around the caps: bytes for a memory, elements for a table.
ProbeMemorySizes ==
    {(max_memory_pages + k) * PageBytes + d :
        k \in (0 - ProbeBeyond)..ProbeBeyond, d \in {0 - 1, 0, 1}}

ProbeTableSizes ==
    {max_table_elements + k : k \in (0 - ProbeBeyond)..ProbeBeyond}

Probes ==
    {[fn |-> "execute_function_with_params", func |-> f, params |-> p,
      done |-> FALSE] : f \in ProbeFuncs, p \in ProbeParams}
    \cup {[fn |-> "memory_growing", current |-> c, desired |-> d,
           maximum |-> m, done |-> FALSE] :
             c \in {0, PageBytes}, d \in ProbeMemorySizes,
             m \in {NoneInt, 2 * max_memory_pages * PageBytes}}
    \cup {[fn |-> "table_growing", current |-> c, desired |-> d,
           maximum |-> m, done |-> FALSE] :
             c \in {0, 1}, d \in ProbeTableSizes,
             m \in {NoneInt, 2 * max_table_elements}}

InitFn ==
    /\ active_instances = 0
    /\ epoch = 0
    /\ metrics = [executions_success |-> 0,
                  failures_instance_limit |-> 0,
                  failures_execution_error |-> 0,
                  failures_timeout |-> 0,
                  duration_observations |-> 0]
    /\ pc = [h \in Handlers |-> "idle"]
    /\ req = [h \in Handlers |-> 0]
    /\ current_instances = [h \in Handlers |-> 0]
    /\ execution_timeout = [h \in Handlers |-> 0]
    /\ store = [h \in Handlers |-> NoStore]
    /\ elapsed = [h \in Handlers |-> 0]
    /\ result = [h \in Handlers |-> NoResult]
    /\ response = [h \in Handlers |-> NoResponse]
    /\ log = [h \in Handlers |-> <<>>]
    /\ connected = [h \in Handlers |-> TRUE]
    /\ probe \in Probes
    /\ InitProcessor

\* The store of an instance of a module with one page of memory.
ProbeStore == [NewStore(epoch) EXCEPT !.memory_pages = 1]

CallFunction ==
    /\ probe.fn = "execute_function_with_params"
    /\ ~probe.done
    /\ probe' = [fn |-> probe.fn, func |-> probe.func,
                 params |-> probe.params, done |-> TRUE,
                 out |-> execute_function_with_params(
                             ProbeStore, probe.func, probe.params, epoch)]
    /\ UNCHANGED <<handler_vars, processor_vars>>

\* ResourceLimiter::memory_growing(current, desired, maximum), main.rs:366:
\* always Ok(..) of the comparison.
GrowMemory ==
    /\ probe.fn = "memory_growing"
    /\ ~probe.done
    /\ probe' = [fn |-> probe.fn, current |-> probe.current,
                 desired |-> probe.desired, maximum |-> probe.maximum,
                 done |-> TRUE,
                 out |-> [ok |-> TRUE,
                          value |-> memory_growing(ProbeStore.limiter,
                                                   probe.desired)]]
    /\ UNCHANGED <<handler_vars, processor_vars>>

\* ResourceLimiter::table_growing(current, desired, maximum), main.rs:372.
GrowTable ==
    /\ probe.fn = "table_growing"
    /\ ~probe.done
    /\ probe' = [fn |-> probe.fn, current |-> probe.current,
                 desired |-> probe.desired, maximum |-> probe.maximum,
                 done |-> TRUE,
                 out |-> [ok |-> TRUE,
                          value |-> table_growing(ProbeStore.limiter,
                                                  probe.desired)]]
    /\ UNCHANGED <<handler_vars, processor_vars>>

NextFn == CallFunction \/ GrowMemory \/ GrowTable

SpecFn == InitFn /\ [][NextFn]_vars

(***************************************************************************)
(* The event processor.  A ClickHouse insert is accepted or fails as a     *)
(* whole (the `?` at insert(), write() or end()); a Redis update succeeds  *)
(* or fails.  The tokio Mutex is held from `lock().await` to the drop of   *)
(* the guard; neither critical section contains another await.             *)
(***************************************************************************)
WrittenBy(rows, events) ==
    [e \in Events |->
        rows[e] + Cardinality({i \in DOMAIN events : events[i] = e})]

\* flush_events, event_processor.rs:88-113: Ok without a write for an empty
\* batch, otherwise one insert of all rows; an error leaves the batch
\* unwritten and the Vec, moved into the function, is gone.
flush_events(rows, events, accepted) ==
    IF events = <<>> THEN [err |-> FALSE, rows |-> rows]
    ELSE IF accepted THEN [err |-> FALSE, rows |-> WrittenBy(rows, events)]
    ELSE [err |-> TRUE, rows |-> rows]

\* flush_events_static, event_processor.rs:159-182: the same body.
flush_events_static(rows, events, accepted) ==
    IF events = <<>> THEN [err |-> FALSE, rows |-> rows]
    ELSE IF accepted THEN [err |-> FALSE, rows |-> WrittenBy(rows, events)]
    ELSE [err |-> TRUE, rows |-> rows]

Drain(events) ==
    [e \in Events |->
        drained[e] + Cardinality({i \in DOMAIN events : events[i] = e})]

\* process_event is called with the next event; transform_event returns
\* Ok for every event (event_processor.rs:63-67).
ProcessEvent(c) ==
    /\ caller[c].pc = "idle"
    /\ received < MaxEvents
    /\ received' = received + 1
    /\ caller' = [caller EXCEPT ![c] =
                     [pc |-> "lock", processed_event |-> received + 1,
                      events_to_flush |-> <<>>]]
    /\ UNCHANGED <<batch_buffer, buffer_lock, flush_task, clickhouse,
                   drained>>
    /\ UNCHANGED <<handler_vars, probe>>

\* self.batch_buffer.lock().await (line 71).
Lock(c) ==
    /\ caller[c].pc = "lock"
    /\ buffer_lock = Unlocked
    /\ buffer_lock' = c
    /\ caller' = [caller EXCEPT ![c].pc = "push"]
    /\ UNCHANGED <<batch_buffer, received, flush_task, clickhouse, drained>>
    /\ UNCHANGED <<handler_vars, probe>>

\* buffer.push(processed_event.clone()) (line 72).
Push(c) ==
    /\ caller[c].pc = "push"
    /\ buffer_lock = c
    /\ batch_buffer' = Append(batch_buffer, caller[c].processed_event)
    /\ caller' = [caller EXCEPT ![c].pc = "test"]
    /\ UNCHANGED <<buffer_lock, received, flush_task, clickhouse, drained>>
    /\ UNCHANGED <<handler_vars, probe>>

\* The test with `>` in the place of `>=`.
DrainIfFull_when_over(c) ==
    /\ caller[c].pc = "test"
    /\ buffer_lock = c
    /\ IF Len(batch_buffer) > batch_size
       THEN /\ caller' = [caller EXCEPT ![c].pc = "flush",
                                        ![c].events_to_flush = batch_buffer]
            /\ batch_buffer' = <<>>
            /\ drained' = Drain(batch_buffer)
       ELSE /\ caller' = [caller EXCEPT ![c].pc = "metrics"]
            /\ UNCHANGED <<batch_buffer, drained>>
    /\ buffer_lock' = Unlocked
    /\ UNCHANGED <<received, flush_task, clickhouse>>
    /\ UNCHANGED <<handler_vars, probe>>

\* Lines 75-80: if the buffer has reached batch_size, drain all of it and
\* drop the guard; otherwise the guard drops at the end of the block.
DrainIfFull(c) ==
    /\ caller[c].pc = "test"
    /\ buffer_lock = c
    /\ IF Len(batch_buffer) >= batch_size
       THEN /\ caller' = [caller EXCEPT ![c].pc = "flush",
                                        ![c].events_to_flush = batch_buffer]
            /\ batch_buffer' = <<>>
            /\ drained' = Drain(batch_buffer)
       ELSE /\ caller' = [caller EXCEPT ![c].pc = "metrics"]
            /\ UNCHANGED <<batch_buffer, drained>>
    /\ buffer_lock' = Unlocked
    /\ UNCHANGED <<received, flush_task, clickhouse>>
    /\ UNCHANGED <<handler_vars, probe>>

\* self.flush_events(events_to_flush).await? (line 78): an error returns
\* from process_event, to a caller that logs it (main.rs:47-49); the batch
\* is not put back.
Flush(c) ==
    /\ caller[c].pc = "flush"
    /\ \E accepted \in BOOLEAN :
          LET out == flush_events(clickhouse, caller[c].events_to_flush,
                                  accepted)
          IN  /\ clickhouse' = out.rows
              /\ caller' = [caller EXCEPT ![c] =
                    IF out.err THEN NoCall
                    ELSE [pc |-> "metrics",
                          processed_event |-> @.processed_event,
                          events_to_flush |-> <<>>]]
    /\ UNCHANGED <<batch_buffer, buffer_lock, received, flush_task, drained>>
    /\ UNCHANGED <<handler_vars, probe>>

\* self.update_real_time_metrics(&processed_event).await?; Ok(())
\* (lines 83-85): the Redis commands succeed or one of them fails; either
\* way the call returns and nothing of the processor changes.
UpdateMetrics(c) ==
    /\ caller[c].pc = "metrics"
    /\ caller' = [caller EXCEPT ![c] = NoCall]
    /\ UNCHANGED <<batch_buffer, buffer_lock, received, flush_task,
                   clickhouse, drained>>
    /\ UNCHANGED <<handler_vars, probe>>

\* interval.tick().await (line 142).
Tick ==
    /\ flush_task.pc = "tick"
    /\ flush_task' = [flush_task EXCEPT !.pc = "lock"]
    /\ UNCHANGED <<batch_buffer, buffer_lock, received, caller, clickhouse,
                   drained>>
    /\ UNCHANGED <<handler_vars, probe>>

\* batch_buffer.lock().await (line 145).
TaskLock ==
    /\ flush_task.pc = "lock"
    /\ buffer_lock = Unlocked
    /\ buffer_lock' = FlushTask
    /\ flush_task' = [flush_task EXCEPT !.pc = "drain"]
    /\ UNCHANGED <<batch_buffer, received, caller, clickhouse, drained>>
    /\ UNCHANGED <<handler_vars, probe>>

\* Lines 146-150: `continue` on an empty buffer, else drain all of it; the
\* guard drops either way.
TaskDrain ==
    /\ flush_task.pc = "drain"
    /\ buffer_lock = FlushTask
    /\ IF batch_buffer = <<>>
       THEN /\ flush_task' = [flush_task EXCEPT !.pc = "tick"]
            /\ UNCHANGED <<batch_buffer, drained>>
       ELSE /\ flush_task' = [pc |-> "flush",
                              events_to_flush |-> batch_buffer]
            /\ batch_buffer' = <<>>
            /\ drained' = Drain(batch_buffer)
    /\ buffer_lock' = Unlocked
    /\ UNCHANGED <<received, caller, clickhouse>>
    /\ UNCHANGED <<handler_vars, probe>>

\* Lines 152-154: flush_events_static; an error is logged and the loop
\* goes on to the next tick.
TaskFlush ==
    /\ flush_task.pc = "flush"
    /\ \E accepted \in BOOLEAN :
          clickhouse' = flush_events_static(clickhouse,
                            flush_task.events_to_flush, accepted).rows
    /\ flush_task' = [pc |-> "tick", events_to_flush |-> <<>>]
    /\ UNCHANGED <<batch_buffer, buffer_lock, received, caller, drained>>
    /\ UNCHANGED <<handler_vars, probe>>

NextProcessor ==
    \/ \E c \in Callers :
          \/ ProcessEvent(c)
          \/ Lock(c)
          \/ Push(c)
          \/ DrainIfFull(c)
          \/ Flush(c)
          \/ UpdateMetrics(c)
    \/ Tick
    \/ TaskLock
    \/ TaskDrain
    \/ TaskFlush

SpecProcessor == Init /\ [][NextProcessor]_vars

(***************************************************************************)
(* Vocabulary of the properties.                                           *)
(***************************************************************************)
Has(h, step) == \E i \in DOMAIN log[h] : log[h][i] = step

Count(h, step) == Cardinality({i \in DOMAIN log[h] : log[h][i] = step})

Terminal(h) == pc[h] \in {"done", "panicked"}

\* The handler passed the limit check and has polled the executor.
Admitted(h) == Has(h, "admitted")

Rejected(h) == pc[h] = "done" /\ ~Has(h, "admitted")

\* The canonical form of the requested path and the file it names.
CanonOf(h) == canonicalize(PathJoin(base_dir, Request(h).module_path))

ModuleOf(h) == FileAt(CanonOf(h).path)

Escapes(h) == CanonOf(h).ok /\ ~IsPrefix(base_dir, CanonOf(h).path)

\* C1: in every reachable state 0 <= active_instances <= max_instances.
C1_ActiveWithinLimit ==
    0 <= active_instances /\ active_instances <= max_instances

\* C2: every handler increments active_instances once at admission and
\* decrements it once on every terminal path (success, executor error,
\* timeout, panic in the executor): never twice, never left undecremented,
\* so the counter equals the number of handlers that have incremented and
\* have neither decremented nor ended.
C2_IncrementDecrementBalanced ==
    /\ active_instances >= 0
    /\ \A h \in Handlers :
          /\ Count(h, "fetch_add") <= 1
          /\ Count(h, "fetch_sub") <= Count(h, "fetch_add")
          /\ Terminal(h) =>
                Count(h, "fetch_add") = 1 /\ Count(h, "fetch_sub") = 1
    /\ active_instances =
          Cardinality({h \in Handlers :
                          /\ ~Terminal(h)
                          /\ Count(h, "fetch_add") = 1
                          /\ Count(h, "fetch_sub") = 0})

\* C3: a request whose fetch_add returns a value >= max_instances is
\* rejected at once: the counter is decremented back, the executor is never
\* called, the reply is success=false "Too many active instances", and the
\* instance_limit failure counter goes up by one per rejection; a request
\* arriving while max_instances admitted ones still execute is rejected.
C3_RejectedAtLimit ==
    /\ \A h \in Handlers :
          (pc[h] = "check" /\ current_instances[h] >= max_instances) =>
             ~ENABLED Execute(h)
    /\ \A h \in Handlers :
          Rejected(h) =>
             /\ response[h] = TooManyInstances
             /\ ~Has(h, "canonicalize") /\ ~Has(h, "invoke")
             /\ Count(h, "fetch_sub") = 1
    /\ \A h \in Handlers :
          (pc[h] = "check"
             /\ Cardinality({g \in Handlers : pc[g] = "guest"}) = max_instances)
          => current_instances[h] >= max_instances
    /\ metrics.failures_instance_limit =
          Cardinality({h \in Handlers : Rejected(h)})

\* C4: a module_path whose canonical form does not have the base directory
\* as a prefix fails with an invalid-path error before any file is read;
\* the module is never parsed or instantiated.
C4_PathContainment ==
    \A h \in Handlers :
        (Admitted(h) /\ Escapes(h)) =>
           /\ ~Has(h, "read") /\ ~Has(h, "parse") /\ ~Has(h, "instantiate")
           /\ ~Has(h, "invoke")
           /\ pc[h] = "done" =>
                 response[h] =
                    ExecuteResponse(FALSE, JNone,
                        <<"Execution error: ", "Invalid module path: ",
                          Request(h).module_path.text>>, 0, 0, 0)

\* C5: a module passes import validation iff each of its imports has
\* module name wasi_snapshot_preview1, or module name env and field name
\* memory or table; with any other import the load fails with an
\* unauthorized-import error, the module is never instantiated and no
\* function of it is invoked.
ImportAccepted(import) ==
    \/ import[1] = "wasi_snapshot_preview1"
    \/ import[1] = "env" /\ import[2] \in {"memory", "table"}

AllImportsAccepted(module) ==
    \A i \in 1..Len(module.imports) : ImportAccepted(module.imports[i])

C5_ImportWhitelist ==
    \A h \in Handlers :
        Has(h, "validate") =>
           /\ Has(h, "store") <=> AllImportsAccepted(ModuleOf(h))
           /\ ~AllImportsAccepted(ModuleOf(h)) =>
                 /\ ~Has(h, "instantiate") /\ ~Has(h, "invoke")
                 /\ result[h].tag = "Ok"
                 /\ result[h].err # OkUnit
                 /\ result[h].err[1] \in {"Unsafe import: env.",
                                          "Unauthorized import module: "}
                 /\ pc[h] = "done" =>
                       /\ ~response[h].success
                       /\ response[h].error =
                             <<"Execution error: ">> \o result[h].err

\* A handler has replied to a request for a module with a forbidden import.
C5_Witness ==
    \E h \in Handlers :
        /\ pc[h] = "done" /\ Has(h, "validate")
        /\ ~AllImportsAccepted(ModuleOf(h))
        /\ ~response[h].success

\* C6: the invocation of a guest function that never returns ends after
\* at most fuel_limit units of fuel, and its response reports the failure
\* with success=false and fuel_consumed = fuel_limit.
C6_FuelExhaustionReported ==
    \A h \in Handlers :
        (pc[h] = "done" /\ Has(h, "invoke")
           /\ ModuleOf(h).func.body = "spin") =>
           /\ ~response[h].success
           /\ response[h].fuel_consumed = fuel_limit

\* C7: for every admitted invocation the engine's epoch is advanced once
\* when the effective timeout elapses, so a guest still running then is
\* past its store's deadline (current epoch + 1) at its next check.
C7_EpochTickAtTimeout ==
    \A h \in Handlers :
        (pc[h] = "guest" /\ execution_timeout[h] >= 1
           /\ elapsed[h] >= execution_timeout[h]) =>
           epoch >= store[h].epoch_deadline

\* C8: an admitted invocation whose guest runs longer than the effective
\* timeout ends in the timeout outcome: success=false, error "Execution
\* timed out", execution_time_ms = the timeout in ms, and only the timeout
\* failure counter goes up, by one.
TimedOutHandlers ==
    {h \in Handlers :
        /\ pc[h] = "done" /\ Has(h, "invoke")
        /\ ModuleOf(h).func.nap > execution_timeout[h]}

C8_TimeoutOutcome ==
    /\ \A h \in TimedOutHandlers :
          response[h] =
             ExecuteResponse(FALSE, JNone, <<"Execution timed out">>,
                             execution_timeout[h] * 1000, 0, 0)
    /\ metrics.failures_timeout = Cardinality(TimedOutHandlers)

\* C9: the effective timeout of every request lies in [1, 300] seconds: 30
\* when timeout_seconds is absent, otherwise timeout_seconds clamped to at
\* least 1 and at most 300.
Max(a, b) == IF a >= b THEN a ELSE b

C9_EffectiveTimeoutRange ==
    \A h \in Handlers :
        Admitted(h) =>
           /\ 1 <= execution_timeout[h]
           /\ execution_timeout[h] <= MaxTimeoutSecs
           /\ execution_timeout[h] =
                 IF Request(h).timeout_seconds = NoneInt
                 THEN DefaultTimeoutSecs
                 ELSE Max(1, Min(Request(h).timeout_seconds, MaxTimeoutSecs))

\* C10: within one admitted invocation the order is admission, load,
\* instantiate, invoke, metric update, response, release of the slot: the
\* outcome counter is updated before the response is produced and
\* active_instances is decremented only after both.
Before(h, a, b) ==
    \A i, j \in DOMAIN log[h] : (log[h][i] = a /\ log[h][j] = b) => i < j

C10_StepOrder ==
    \A h \in Handlers :
        Admitted(h) =>
           /\ Before(h, "admitted", "read")
           /\ Before(h, "read", "instantiate")
           /\ Before(h, "instantiate", "invoke")
           /\ Before(h, "invoke", "counter")
           /\ Before(h, "counter", "reply")
           /\ Before(h, "reply", "fetch_sub")
           /\ Has(h, "fetch_sub") => Has(h, "counter") /\ Has(h, "reply")

\* C11: every admitted request reaches a terminal outcome with its slot
\* released: no error of the loader, the marshaller or the executor ends
\* the handler without a reply or skips the decrement, so whenever no
\* request is in flight active_instances is 0, below the limit, and a
\* request that arrives then is admitted.
NoneInFlight == \A h \in Handlers : ~InFlight(h)

C11_SlotAlwaysReleased ==
    /\ \A h \in Handlers :
          (Terminal(h) /\ Admitted(h)) =>
             pc[h] = "done" /\ Count(h, "fetch_sub") = 1
    /\ NoneInFlight => active_instances = 0 /\ active_instances < max_instances

\* C12: every request that reaches the handler gets a reply of the
\* ExecuteResponse shape and moves exactly one outcome counter, the one of
\* its outcome: executions{success} with one duration observation for a
\* success, failures{execution_error} for a failure of the loader, the
\* marshaller, the lookup, the fuel, a trap or any other error,
\* failures{timeout} for a timeout, failures{instance_limit} for a
\* rejection; every reply but the first kind has success=false.
Replied(h) == pc[h] = "done"

Succeeded == {h \in Handlers : Replied(h) /\ response[h].success}

LimitRejected == {h \in Handlers : Replied(h) /\ ~Admitted(h)}

TimeoutReplied ==
    {h \in Handlers :
        /\ Replied(h) /\ Admitted(h) /\ ~response[h].success
        /\ result[h].tag = "Elapsed"}

ErrorReplied ==
    {h \in Handlers :
        /\ Replied(h) /\ Admitted(h) /\ ~response[h].success
        /\ result[h].tag = "Ok"}

C12_OneOutcomeCounter ==
    /\ \A h \in Handlers :
          Terminal(h) =>
             /\ Replied(h)
             /\ response[h] # NoResponse
             /\ response[h].success =
                   (Admitted(h) /\ result[h].tag = "Ok"
                      /\ result[h].err = OkUnit)
    /\ metrics.executions_success = Cardinality(Succeeded)
    /\ metrics.duration_observations = Cardinality(Succeeded)
    /\ metrics.failures_execution_error = Cardinality(ErrorReplied)
    /\ metrics.failures_timeout = Cardinality(TimeoutReplied)
    /\ metrics.failures_instance_limit = Cardinality(LimitRejected)

\* C13: invocations are isolated: the result, fuel_consumed and
\* memory_used_bytes of an admitted invocation are those the same request
\* gets when it runs alone, whatever the other invocations in flight do (a
\* refused memory growth, a trap, fuel exhaustion, any error); another
\* invocation bears on it only through admission.
Metered(resp) ==
    <<resp.result, resp.fuel_consumed, resp.memory_used_bytes>>

\* The reply to request r of the catalog when served alone, by an
\* otherwise idle service.
Alone(r) ==
    LET prep == execute_plugin_prepare(Catalog[r], 0)
        fin == execute_plugin_finish(prep.store, prep.module, prep.args,
                                     prep.module.func.nap, 0)
    IN  IF prep.outcome = "call" /\ fin.err = OkUnit
        THEN fin.response
        ELSE ExecuteResponse(FALSE, JNone, NoneStr, 0, 0, 0)

C13_Isolation ==
    \A h \in Handlers :
        (pc[h] = "done" /\ Admitted(h)) =>
           /\ Metered(response[h]) = Metered(Alone(req[h]))
           /\ req[h] = 2 => Metered(response[h]) = <<JArr(<<>>), 1, 0>>

FailedInGuest(h) ==
    pc[h] = "done" /\ Has(h, "invoke") /\ ~response[h].success

C13_Witness ==
    \E h, g \in Handlers :
        /\ h # g
        /\ FailedInGuest(h) /\ Request(h).params = JArr(<<JInt(3)>>)
        /\ pc[g] = "done" /\ Admitted(g) /\ response[g].success

\* C14: the limiter allows a memory growth iff the desired size in bytes
\* is at most max_memory_pages * 65536 and a table growth iff the desired
\* number of elements is at most max_table_elements, whatever the current
\* size and the declared maximum; the answer is always a value (Ok(true)
\* or Ok(false)), never an error.
C14_LimiterDecision ==
    /\ (probe.fn = "memory_growing" /\ probe.done) =>
          /\ probe.out.ok
          /\ probe.out.value = (probe.desired <= max_memory_pages * 65536)
    /\ (probe.fn = "table_growing" /\ probe.done) =>
          /\ probe.out.ok
          /\ probe.out.value = (probe.desired <= max_table_elements)

C14_Witness ==
    /\ probe.fn = "memory_growing" /\ probe.done
    /\ probe.desired = max_memory_pages * 65536 + 1
    /\ probe.out = [ok |-> TRUE, value |-> FALSE]

\* C15: a params value that is not a JSON array, and an array whose length
\* is not the number of parameters the function declares, are refused by
\* the marshaller with its bad-parameters error before the function is
\* invoked: the guest function is not entered.
Called == probe.fn = "execute_function_with_params" /\ probe.done

C15_ArityCheckedBeforeCall ==
    Called =>
       /\ probe.params.k # "arr" =>
             /\ probe.out.err = <<"Parameters must be an array">>
             /\ ~probe.out.entered
       /\ (probe.params.k = "arr"
             /\ Len(probe.params.a) # Len(probe.func.params)) =>
             /\ probe.out.err = <<"Parameter count mismatch">>
             /\ ~probe.out.entered

C15_Witness ==
    /\ Called
    /\ probe.func.body = "add"
    /\ probe.params = JArr(<<JInt(1), JInt(2), JInt(3)>>)
    /\ probe.out.err # OkUnit /\ ~probe.out.entered

\* C16: for a parameter declared i32 the marshaller accepts a JSON number
\* only when its integral value fits in a signed 32-bit integer, and then
\* passes exactly that value; an integral value outside that range makes
\* the call fail with the bad-parameters error, it is not passed on as a
\* different number.
FitsI32(v) == I32Min <= v /\ v <= I32Max

WellCounted ==
    probe.params.k = "arr" /\ Len(probe.params.a) = Len(probe.func.params)

C16_I32RangeChecked ==
    (Called /\ WellCounted) =>
       \A i \in 1..Len(probe.func.params) :
          (probe.func.params[i] = "I32" /\ probe.params.a[i].k = "int") =>
             IF FitsI32(probe.params.a[i].v)
             THEN probe.out.entered =>
                     probe.out.args[i] = Val("I32", probe.params.a[i].v)
             ELSE probe.out.err # OkUnit /\ ~probe.out.entered

\* C17: the marshalling round trip: for every pair (a, b) of i32 values
\* whose sum does not overflow, add(i32, i32) -> i32 called with the JSON
\* array [a, b] succeeds with the JSON number a + b; and a value v of
\* type i32 or i64 marshalled in and out again is v.
IntParams ==
    WellCounted /\ \A i \in 1..Len(probe.params.a) : probe.params.a[i].k = "int"

C17_RoundTrip ==
    (Called /\ IntParams) =>
       /\ (probe.func.body = "add"
             /\ FitsI32(probe.params.a[1].v) /\ FitsI32(probe.params.a[2].v)
             /\ FitsI32(probe.params.a[1].v + probe.params.a[2].v)) =>
             /\ probe.out.err = OkUnit
             /\ probe.out.result =
                   JInt(probe.params.a[1].v + probe.params.a[2].v)
       /\ (probe.func.body = "id" /\ probe.func.params = <<"I32">>
             /\ FitsI32(probe.params.a[1].v)) =>
             /\ probe.out.err = OkUnit
             /\ probe.out.result = probe.params.a[1]
       /\ (probe.func.body = "id" /\ probe.func.params = <<"I64">>) =>
             /\ probe.out.err = OkUnit
             /\ probe.out.result = probe.params.a[1]

C17_Witness ==
    /\ Called
    /\ probe.func.body = "add"
    /\ probe.params = Two(I32Min + 1, 0 - 1)
    /\ probe.out.entered
    /\ probe.out.result = JInt(I32Min)

\* C18: the result of a successful call is marshalled by the number of
\* values the function returns: none gives JSON null, exactly one gives
\* that value as a single JSON number (not an array), two or more give a
\* JSON array of the values, as many and in the same order.
Returned == Called /\ probe.out.entered /\ probe.out.err = OkUnit

C18_ResultShape ==
    Returned =>
       LET n == Len(probe.func.results)
       IN  /\ n = 0 => probe.out.result = JNull
           /\ n = 1 => probe.out.result.k = "int"
           /\ n >= 2 =>
                 /\ probe.out.result.k = "arr"
                 /\ Len(probe.out.result.a) = n
                 /\ \A i \in 1..n :
                       probe.out.result.a[i] = JInt(probe.out.args[i].v)

\* C19: on every successful invocation the reply carries fuel_consumed =
\* fuel_limit - the fuel remaining in the store of that invocation, so
\* 0 <= fuel_consumed <= fuel_limit: the subtraction does not underflow.
C19_FuelConsumed ==
    \A h \in Handlers :
        (pc[h] = "done" /\ response[h].success) =>
           /\ store[h].fuel <= fuel_limit
           /\ response[h].fuel_consumed = fuel_limit - store[h].fuel
           /\ 0 <= response[h].fuel_consumed
           /\ response[h].fuel_consumed <= fuel_limit

C19_Witness ==
    \E h \in Handlers :
        /\ pc[h] = "done" /\ response[h].success
        /\ ModuleOf(h).start_fuel = 1
        /\ response[h].fuel_consumed = 2

\* C20: a client that disconnects during an admitted invocation does not
\* cancel it: the handler is neither dropped nor left suspended, a guest
\* that was entered runs until it returns, and when the handler has
\* replied its slot has been released once, as for a client that stayed.
C20_DisconnectDoesNotCancel ==
    \A h \in Handlers :
        ~connected[h] =>
           /\ pc[h] \notin {"dropped", "suspended"}
           /\ pc[h] = "guest" => elapsed[h] <= GuestFunc(h).nap
           /\ (Has(h, "invoke") /\ pc[h] # "guest") =>
                 elapsed[h] = GuestFunc(h).nap
           /\ (pc[h] = "done" /\ Admitted(h)) =>
                 /\ Count(h, "fetch_sub") = 1
                 /\ response[h] # NoResponse
           /\ (NoneInFlight /\ \A g \in Handlers : pc[g] = "done") =>
                 active_instances = 0

C20_Witness ==
    \E h \in Handlers :
        /\ ~connected[h]
        /\ pc[h] = "done" /\ Has(h, "invoke")
        /\ Count(h, "fetch_sub") = 1
        /\ response[h].success

\* C21: in every invocation the imports are validated and the store is
\* set up (fuel_limit units of fuel, epoch deadline = current epoch + 1,
\* the ResourceLimiter with the configured caps) before the module is
\* instantiated, so the start function and the initial memory are under
\* the fuel meter and the caps: a module that needs more than either
\* allows is not instantiated, and a guest that is entered has a store
\* charged with what instantiation left of fuel_limit.
C21_GuardsBeforeInstantiate ==
    \A h \in Handlers :
        Has(h, "instantiate") =>
           /\ Has(h, "validate") /\ Before(h, "validate", "instantiate")
           /\ Has(h, "store") /\ Before(h, "store", "instantiate")
           /\ AllImportsAccepted(ModuleOf(h))
           /\ (ModuleOf(h).start_fuel > fuel_limit
                 \/ ModuleOf(h).memory_pages > max_memory_pages) =>
                 ~Has(h, "get_func") /\ ~Has(h, "invoke")
           /\ pc[h] = "guest" =>
                 /\ store[h].fuel = fuel_limit - ModuleOf(h).start_fuel
                 /\ store[h].epoch_deadline = epoch + 1
                 /\ store[h].limiter =
                       [memory_limit |-> max_memory_pages * 65536,
                        table_limit |-> max_table_elements]

C21_Witness ==
    \E h \in Handlers :
        /\ pc[h] = "guest"
        /\ ModuleOf(h).start_fuel = 1
        /\ store[h].fuel = fuel_limit - 1

\* C22: under any interleaving the handlers that were admitted (their
\* fetch_add returned less than max_instances) and have not yet
\* decremented active_instances are at most max_instances, so at most
\* max_instances executors run at the same time.
Holding ==
    {h \in Handlers :
        \/ pc[h] = "check" /\ current_instances[h] < max_instances
        \/ Admitted(h) /\ Count(h, "fetch_sub") = 0}

C22_AdmittedWithinLimit ==
    /\ Cardinality(Holding) <= max_instances
    /\ Cardinality({h \in Handlers : pc[h] = "guest"}) <= max_instances

C22_Witness ==
    /\ Cardinality({h \in Handlers : pc[h] = "guest"}) = max_instances
    /\ \E h \in Handlers :
          pc[h] = "check" /\ current_instances[h] >= max_instances

\* C23: no spurious rejection: a request is rejected ("Too many active
\* instances") only if, at the moment of its fetch_add, max_instances
\* admitted requests are still executing; the increments of requests that
\* are themselves about to be rejected never make a request be rejected
\* while a slot is free.
Executing == {h \in Holding : pc[h] # "panicked"}

Arrives(h) == pc[h] = "idle" /\ pc'[h] = "check"

Incremented ==
    {h \in Handlers : Count(h, "fetch_add") = 1 /\ Count(h, "fetch_sub") = 0}

C24_NeverTimeoutBranch ==
    \A h \in Handlers :
        /\ pc[h] # "suspended"
        /\ pc[h] \in {"release", "report", "done"} /\ Admitted(h) =>
              result[h].tag = "Ok"
        /\ (pc[h] = "done" /\ Admitted(h)) =>
              /\ response[h].error # <<"Execution timed out">>
              /\ \/ response[h].success /\ result[h].err = OkUnit
                 \/ /\ ~response[h].success
                    /\ response[h].error =
                          <<"Execution error: ">> \o result[h].err

C24_Witness ==
    \E h \in Handlers :
        /\ pc[h] = "done" /\ Has(h, "invoke")
        /\ Request(h).timeout_seconds = 0
        /\ elapsed[h] > execution_timeout[h]
        /\ response[h].success

\* C25: every reply of the handler is well-formed: success=true iff a
\* result is present iff no error is present; and every failure reply
\* (instance limit, executor error, timeout) has memory_used_bytes = 0 and
\* fuel_consumed = 0, and execution_time_ms = 0 unless it is the timeout
\* reply.
C25_WellFormedResponse ==
    \A h \in Handlers :
        pc[h] = "done" =>
           /\ response[h].success = (response[h].result # JNone)
           /\ response[h].success = (response[h].error = NoneStr)
           /\ ~response[h].success =>
                 /\ response[h].memory_used_bytes = 0
                 /\ response[h].fuel_consumed = 0
                 /\ response[h].error # <<"Execution timed out">> =>
                       response[h].execution_time_ms = 0

C25_Witness ==
    \E h, g \in Handlers :
        /\ pc[h] = "done" /\ response[h] = TooManyInstances
        /\ pc[g] = "done" /\ ~response[g].success /\ Has(g, "invoke")

\* The events that are in a batch taken from the buffer and not yet
\* flushed.
InBatch(e) ==
    \/ \E i \in DOMAIN flush_task.events_to_flush :
          flush_task.events_to_flush[i] = e
    \/ \E c \in Callers : \E i \in DOMAIN caller[c].events_to_flush :
          caller[c].events_to_flush[i] = e

\* C26: whenever no task holds the batch_buffer lock, the buffer holds
\* fewer than batch_size events.
C26_BufferBelowBatchSize ==
    buffer_lock = Unlocked => Len(batch_buffer) < batch_size

C26_Witness ==
    /\ buffer_lock = Unlocked
    /\ Len(batch_buffer) = batch_size - 1
    /\ \E c \in Callers : Len(caller[c].events_to_flush) = batch_size
    /\ flush_task.pc = "flush"

\* C27: every event pushed into batch_buffer is drained into exactly one
\* flush batch, and once its batch has been flushed, successfully or not,
\* it is in ClickHouse exactly once.
C27_WrittenExactlyOnce ==
    \A e \in Events :
        /\ drained[e] <= 1
        /\ clickhouse[e] <= drained[e]
        /\ (drained[e] = 1 /\ ~InBatch(e)) => clickhouse[e] = 1
====
